---- MODULE Spec2Model ----
(***************************************************************************)
(* Render scheduling of nerfview: the Viewer (viewer.py) with its          *)
(* lifecycle status, its registry of per-client renderers and its two      *)
(* render triggers (camera movement, training update), and the per-client  *)
(* scheduler RenderClient (render_client.py).                              *)
(*                                                                         *)
(* Threads.  The host calls update_training and complete from one thread;  *)
(* the server runs every registered callback (camera on_update, button     *)
(* on_click, slider on_update, connect, disconnect) on its own threads.    *)
(* A callback that has been dispatched but has not run yet is an event in  *)
(* flight.                                                                 *)
(*                                                                         *)
(* Reading of the source.  viewer.py spells the lifecycle status           *)
(* self.status (lines 81, 130, 135) and self.state.status (lines 199,      *)
(* 211); nothing in src assigns self.state, so the two spellings are taken *)
(* to denote the one status field.  The stats text (self.metrics,          *)
(* self._stats_text_fn) is formatting and is not part of the state.        *)
(* Renderer and RenderTask are imported from _renderer, which is not among *)
(* the sources: Renderer.submit is modelled from the specification as the  *)
(* scheduler's synchronous render, run under the lock the Renderer was     *)
(* constructed with, and the scheduler itself is RenderClient.             *)
(*                                                                         *)
(* Time is counted in sleep periods of the movement hold-off loop          *)
(* (0.05 s); scales are in percent.                                        *)
(***************************************************************************)
EXTENDS Integers, Sequences, FiniteSets, TLC

\* ---------------------------------------------------------------- bounds
NumClients == 2
MaxTicks == 2
MaxEvents == 5

\* ------------------------------------------------------------- constants
\* while time.time() - self._last_move_time < 0.1: time.sleep(0.05)
DebounceTicks == 2
\* full-resolution scale of a render that is not a movement preview
FullScale == 100

Clients == 1..NumClients
\* time.time() at construction: far beyond the initial _last_move_time 0.0
Epoch == DebounceTicks
MaxTime == Epoch + MaxTicks

Status == {"rendering", "preparing", "training", "paused", "completed"}
Modes == {"rendering", "training"}

\* RenderConfig defaults (quality, resolution cap, preview scale in percent)
RenderConfig == [jpeg_quality |-> 70, max_render_res |-> 2048, fast_render_scale |-> 50]

\* thread identities
Host == <<"host", 0>>
Gui == <<"gui", 0>>
Cam(c) == <<"cam", c>>
Threads == {Host, Gui} \cup {Cam(c) : c \in Clients}
NoThread == <<"none", 0>>

\* locks: the process-wide VIEWER_LOCK
VIEWER_LOCK == <<"VIEWER_LOCK", 0>>
Locks == {VIEWER_LOCK} \cup {<<"Lock", c>> : c \in Clients}

VARIABLES
    mode,            \* Viewer.mode
    status,          \* Viewer.status
    pauseBtn,        \* _pause_train_button: [visible, disabled]
    resumeBtn,       \* _resume_train_button: [visible, disabled]
    clicks,          \* button clicks in flight
    clients,         \* server.get_clients(): ids of the connected clients
    renderers,       \* keys of Viewer._renderers
    rlock,           \* the lock each Renderer was constructed with
    seen,            \* number of client ids handed out so far
    step,            \* Viewer._step
    last_move_time,  \* Viewer._last_move_time
    last_render,     \* RenderClient.last_render, per client
    last_moved,      \* RenderClient.last_moved, per client
    config,          \* the shared RenderConfig
    locked,          \* holder of each lock
    pc,              \* position of each thread
    tgt,             \* client of the render a thread is in
    act,             \* action of the RenderTask a thread submitted
    todo,            \* clients left in the loop of update_training / rerender
    now,             \* time.time()
    budget,          \* events the environment and the host may still start
    \* history of the operations, read by the properties only
    out,             \* outcome of the last operation of each thread
    reqs,            \* render requests of the current operation of each thread
    hScene,          \* scene_changed of the current update
    hGate,           \* status read by the current update at line 199
    hSnap,           \* clients the current update iterates over
    hTrig,           \* last_render of the client when update triggered it
    rendered,        \* clients whose scheduler has rendered at least once
    lastUpdate,      \* time the last update finished its dispatch
    succ,            \* run of updates in immediate succession
    completeCalled,  \* complete() has been called
    life,            \* last lifecycle operations and the state before pause
    aspect,          \* camera.aspect of each client, as <<width, height>>
    stats,           \* _stats_text.content
    hStep,           \* step of the last update the host made while training
    late,            \* clients that connected after complete()
    pub              \* output quality of the last publish, and at its render's start

vars == <<mode, status, pauseBtn, resumeBtn, clicks, clients, renderers, rlock, seen,
          step, last_move_time, last_render, last_moved, config, locked, pc, tgt, act,
          todo, now, budget, out, reqs, hScene, hGate, hSnap, hTrig, rendered, lastUpdate,
          succ, completeCalled, life, aspect, stats, hStep, late, pub>>

viewerVars == <<mode, status, pauseBtn, resumeBtn>>
clientVars == <<clients, renderers, rlock, seen>>
timeVars == <<last_move_time, last_render, last_moved>>
threadVars == <<locked, pc, tgt, act, todo>>
updVars == <<hScene, hGate, hSnap, hTrig, rendered, lastUpdate>>
moreVars == <<aspect, stats, hStep, late, pub>>

\* the stats text: the metrics line, or the terminal message with its step
Metrics == [kind |-> "metrics", step |-> 0]
Completed(n) == [kind |-> "completed", step |-> n]
NoPub == [q |-> 0, q0 |-> 0]

\* camera.aspect of a client's viewport, as <<width, height>>: a client
\* starts in landscape and may turn to square, portrait or a wide strip
Aspects == {<<16, 9>>, <<1, 1>>, <<9, 16>>, <<3000, 1>>}

NoSucc == [n |-> 0, cnt |-> [c \in Clients |-> 0]]
NoLife == [ops |-> <<>>, pre |-> <<>>]

\* ------------------------------------------------------------------ Init
\* Viewer.__init__ and _define_guis
Constructed ==
    /\ mode \in Modes
    /\ status = mode
    /\ pauseBtn = [visible |-> TRUE, disabled |-> FALSE]
    /\ resumeBtn = [visible |-> FALSE, disabled |-> FALSE]
    /\ clicks = {}
    /\ clients = {}
    /\ renderers = {}
    /\ rlock = [c \in Clients |-> VIEWER_LOCK]
    /\ seen = 0
    /\ step = 0
    /\ last_move_time = 0
    /\ last_render = [c \in Clients |-> 0]
    /\ last_moved = [c \in Clients |-> 0]
    /\ config = RenderConfig
    /\ locked = [l \in Locks |-> NoThread]
    /\ pc = [t \in Threads |-> "idle"]
    /\ tgt = [t \in Threads |-> 0]
    /\ act = [t \in Threads |-> "none"]
    /\ todo = [t \in Threads |-> <<>>]
    /\ now = Epoch
    /\ out = [t \in Threads |-> "none"]
    /\ reqs = [t \in Threads |-> <<>>]
    /\ hScene = FALSE
    /\ hGate = "none"
    /\ hSnap = {}
    /\ hTrig = 0
    /\ rendered = {}
    /\ lastUpdate = 0
    /\ succ = NoSucc
    /\ completeCalled = FALSE
    /\ life = NoLife
    /\ aspect = [c \in Clients |-> <<16, 9>>]
    /\ stats = Metrics
    /\ hStep = 0
    /\ late = {}
    /\ pub = NoPub

Init == Constructed /\ budget = MaxEvents

\* a run with no bound on the number of events
Unbounded == budget > MaxEvents

\* an event of the environment, a call of the host or a tick of the clock
\* starts
Event ==
    IF Unbounded THEN budget' = budget
    ELSE budget > 0 /\ budget' = budget - 1

\* the clients of a snapshot in iteration order (ids are handed out in
\* connection order, and a dict iterates in insertion order)
RECURSIVE InOrder(_)
InOrder(S) ==
    IF S = {} THEN <<>>
    ELSE LET m == CHOOSE x \in S : \A y \in S : x <= y
         IN <<m>> \o InOrder(S \ {m})

\* ----------------------------------------------------------------- clock
Tick ==
    /\ now < MaxTime
    /\ Event
    /\ now' = now + 1
    /\ UNCHANGED <<viewerVars, clicks, clientVars, step, timeVars, config, threadVars,
                   out, reqs, updVars, succ, completeCalled, life, moreVars>>


\* ------------------------------------------------------ lifecycle status
\* the Training folder is created with visible = (mode == "training")
TrainingFolderVisible == mode = "training"

\* a click reaches the server only from a button the client shows enabled
ClickPause ==
    /\ TrainingFolderVisible
    /\ pauseBtn.visible /\ ~pauseBtn.disabled
    /\ "pause" \notin clicks
    /\ Event
    /\ clicks' = clicks \cup {"pause"}
    /\ succ' = NoSucc
    /\ UNCHANGED <<viewerVars, clientVars, step, timeVars, config, threadVars, now,
                   out, reqs, updVars, completeCalled, life, moreVars>>

ClickResume ==
    /\ TrainingFolderVisible
    /\ resumeBtn.visible /\ ~resumeBtn.disabled
    /\ "resume" \notin clicks
    /\ Event
    /\ clicks' = clicks \cup {"resume"}
    /\ succ' = NoSucc
    /\ UNCHANGED <<viewerVars, clientVars, step, timeVars, config, threadVars, now,
                   out, reqs, updVars, completeCalled, life, moreVars>>

\* a pause that shows the Resume button and leaves the Pause button shown
PauseButtonsBoth == [pause |-> TRUE, resume |-> TRUE]

\* the visibility _on_pause_train gives the two buttons
PauseButtons == [pause |-> FALSE, resume |-> TRUE]

\* Viewer._on_pause_train
OnPauseTrain ==
    /\ "pause" \in clicks
    /\ clicks' = clicks \ {"pause"}
    /\ status' = "paused"
    /\ pauseBtn' = [pauseBtn EXCEPT !.visible = PauseButtons.pause]
    /\ resumeBtn' = [resumeBtn EXCEPT !.visible = PauseButtons.resume]
    /\ life' = [ops |-> <<"pause">>, pre |-> <<status, pauseBtn, resumeBtn>>]
    /\ UNCHANGED <<mode, clientVars, step, timeVars, config, threadVars, now, budget,
                   out, reqs, updVars, succ, completeCalled, moreVars>>

\* a resume that leaves the Pause button hidden
ResumeButtonsHidden == [pause |-> FALSE, resume |-> FALSE]

\* the visibility _on_resume_train gives the two buttons
ResumeButtons == [pause |-> TRUE, resume |-> FALSE]

\* Viewer._on_resume_train
OnResumeTrain ==
    /\ "resume" \in clicks
    /\ clicks' = clicks \ {"resume"}
    /\ status' = "training"
    /\ pauseBtn' = [pauseBtn EXCEPT !.visible = ResumeButtons.pause]
    /\ resumeBtn' = [resumeBtn EXCEPT !.visible = ResumeButtons.resume]
    /\ life' = [life EXCEPT !.ops = IF life.ops = <<"pause">>
                                      THEN <<"pause", "resume">> ELSE <<>>]
    /\ UNCHANGED <<mode, clientVars, step, timeVars, config, threadVars, now, budget,
                   out, reqs, updVars, succ, completeCalled, moreVars>>

\* Viewer.complete, called by the host between its update calls
Complete ==
    /\ pc[Host] = "idle"
    /\ Event
    /\ status' = "completed"
    /\ pauseBtn' = [pauseBtn EXCEPT !.disabled = TRUE]
    /\ resumeBtn' = [resumeBtn EXCEPT !.disabled = TRUE]
    /\ stats' = Completed(step)
    /\ completeCalled' = TRUE
    /\ life' = NoLife
    /\ succ' = NoSucc
    /\ UNCHANGED <<mode, clicks, clientVars, step, timeVars, config, threadVars, now,
                   out, reqs, updVars, aspect, hStep, late, pub>>

\* ------------------------------------------------- connect / disconnect
\* a Renderer constructed with a lock of its own
ConnectLockOwn(c) == <<"Lock", c>>

\* the lock _connect_client hands to the Renderer: lock=self.lock, which
\* __init__ set to VIEWER_LOCK
ConnectLock(c) == VIEWER_LOCK

\* Viewer._connect_client, with RenderClient.__init__ for the new scheduler
Connect(c) ==
    /\ c = seen + 1
    /\ c \in Clients
    /\ Event
    /\ seen' = c
    /\ clients' = clients \cup {c}
    /\ renderers' = renderers \cup {c}
    /\ rlock' = [rlock EXCEPT ![c] = ConnectLock(c)]
    /\ last_render' = [last_render EXCEPT ![c] = now]
    /\ last_moved' = [last_moved EXCEPT ![c] = now]
    /\ late' = IF completeCalled THEN late \cup {c} ELSE late
    /\ succ' = NoSucc
    /\ UNCHANGED <<viewerVars, clicks, step, last_move_time, config, threadVars, now,
                   out, reqs, updVars, completeCalled, life, aspect, stats, hStep, pub>>

\* Viewer._disconnect_client
Disconnect(c) ==
    /\ c \in clients
    /\ c \in renderers
    /\ Event
    /\ clients' = clients \ {c}
    /\ renderers' = renderers \ {c}
    /\ succ' = NoSucc
    /\ UNCHANGED <<viewerVars, clicks, rlock, seen, step, timeVars, config, threadVars,
                   now, out, reqs, updVars, completeCalled, life, moreVars>>

\* -------------------------------------------------------------- renders
\* a movement that renders at full scale
CameraMovedScaleFull == FullScale

\* RenderClient.camera_moved renders at the configured preview scale
CameraMovedScale == config.fast_render_scale

\* Renderer.submit: a "move" task is the scheduler's on_camera_moved, any
\* other task a render at full scale
TaskScale(a) == IF a = "move" THEN CameraMovedScale ELSE FullScale

\* the scheduler's timestamps: camera_moved records last_moved, render
\* records last_render
Stamp(t) ==
    /\ last_moved' = IF act[t] = "move"
                     THEN [last_moved EXCEPT ![tgt[t]] = now] ELSE last_moved
    /\ last_render' = [last_render EXCEPT ![tgt[t]] = now]

\* Renderer.submit runs the render under the lock the Renderer was
\* constructed with: it waits until the lock is free and takes it
SubmitAcquire(t) ==
    /\ locked[rlock[tgt[t]]] = NoThread
    /\ locked' = [locked EXCEPT ![rlock[tgt[t]]] = t]

\* and releases it when the render is over
SubmitRelease(t) == locked' = [locked EXCEPT ![rlock[tgt[t]]] = NoThread]

\* a render that gives the short edge the full target
get_image_size_square(max_size, asp) == [w |-> max_size, h |-> max_size]

\* RenderClient.get_image_size; sizes are in hundredths of a pixel, and int()
\* of a quotient that is not negative is its floor
get_image_size(max_size, asp) ==
    IF asp[1] > asp[2]
    THEN [w |-> max_size, h |-> 100 * ((max_size * asp[2]) \div (100 * asp[1]))]
    ELSE [w |-> 100 * ((max_size * asp[1]) \div (100 * asp[2])), h |-> max_size]

\* Renderer.submit enters the render: RenderClient.render records the time
\* and reads the pose of the client's camera
RenderBegin(t) ==
    /\ pc[t] = "submit"
    /\ SubmitAcquire(t)
    /\ Stamp(t)
    /\ reqs' = [reqs EXCEPT ![t] = Append(@, [client |-> tgt[t],
                                               scale |-> TaskScale(act[t]),
                                               fast |-> config.fast_render_scale,
                                               at |-> now,
                                               asp |-> aspect[tgt[t]],
                                               res |-> 0,
                                               size |-> [w |-> 0, h |-> 0],
                                               q0 |-> 0])]
    /\ rendered' = rendered \cup {tgt[t]}
    /\ pc' = [pc EXCEPT ![t] = "posed"]
    /\ succ' = IF t # Host THEN NoSucc
               ELSE IF hScene THEN succ
               ELSE [succ EXCEPT !.cnt[tgt[t]] = @ + 1]
    /\ UNCHANGED <<viewerVars, clicks, clientVars, step, last_move_time, config, tgt,
                   act, todo, now, budget, out, hScene, hGate, hSnap, hTrig,
                   lastUpdate, completeCalled, life, moreVars>>

\* RenderClient.render computes the image size from the resolution cap and
\* calls the render callback with the pose it read
RenderCall(t) ==
    /\ pc[t] = "posed"
    /\ LET n == Len(reqs[t])
           r == reqs[t][n]
       IN reqs' = [reqs EXCEPT ![t][n] =
                     [r EXCEPT !.res = config.max_render_res,
                               !.size = get_image_size(r.scale * config.max_render_res,
                                                       r.asp),
                               !.q0 = config.jpeg_quality]]
    /\ pc' = [pc EXCEPT ![t] = "incall"]
    /\ UNCHANGED <<viewerVars, clicks, clientVars, step, timeVars, config, locked, tgt,
                   act, todo, now, budget, out, updVars, succ, completeCalled, life,
                   moreVars>>

\* the callback returns and RenderClient.render publishes the image with
\* the configured quality (to a client that is gone the publish is dropped)
RenderEnd(t) ==
    /\ pc[t] = "incall"
    /\ SubmitRelease(t)
    /\ pub' = [q |-> config.jpeg_quality, q0 |-> reqs[t][Len(reqs[t])].q0]
    /\ IF t \in {Host, Gui}
       THEN /\ pc' = [pc EXCEPT ![t] = "loop"]
            /\ todo' = [todo EXCEPT ![t] = Tail(@)]
            /\ out' = out
       ELSE /\ pc' = [pc EXCEPT ![t] = "idle"]
            /\ todo' = todo
            /\ out' = [out EXCEPT ![t] = "ok"]
    /\ tgt' = [tgt EXCEPT ![t] = 0]
    /\ UNCHANGED <<viewerVars, clicks, clientVars, step, timeVars, config, act, now,
                   budget, reqs, updVars, succ, completeCalled, life, aspect, stats,
                   hStep, late>>

\* a callback that tears the scheduler down when it fails
RenderFailDrops(t) ==
    /\ pc[t] = "incall"
    /\ Event
    /\ SubmitRelease(t)
    /\ renderers' = renderers \ {tgt[t]}
    /\ pc' = [pc EXCEPT ![t] = "idle"]
    /\ todo' = [todo EXCEPT ![t] = <<>>]
    /\ out' = [out EXCEPT ![t] = "CallbackFailure"]
    /\ tgt' = [tgt EXCEPT ![t] = 0]
    /\ UNCHANGED <<viewerVars, clicks, clients, rlock, seen, step, timeVars, config,
                   act, now, reqs, updVars, succ, completeCalled, life, moreVars>>

\* the callback raises: nothing in RenderClient.render, camera_moved, the
\* camera handler, rerender or update_training catches it, so it leaves the
\* render, the lock's scope and the operation that asked for the render
RenderFail(t) ==
    /\ pc[t] = "incall"
    /\ Event
    /\ SubmitRelease(t)
    /\ pc' = [pc EXCEPT ![t] = "idle"]
    /\ todo' = [todo EXCEPT ![t] = <<>>]
    /\ out' = [out EXCEPT ![t] = "CallbackFailure"]
    /\ tgt' = [tgt EXCEPT ![t] = 0]
    /\ UNCHANGED <<viewerVars, clicks, clientVars, step, timeVars, config, act, now,
                   reqs, updVars, succ, completeCalled, life, moreVars>>

\* --------------------------------------------------------- RenderConfig
\* values a caller may assign to a field of the shared RenderConfig
ConfigInputs ==
    [jpeg_quality |-> {90, 101}, max_render_res |-> {1024, 0},
     fast_render_scale |-> {25, 0}]

\* an assignment to a field of the dataclass, which checks nothing
SetConfig(f, v) ==
    /\ Event
    /\ config' = [config EXCEPT ![f] = v]
    /\ UNCHANGED <<viewerVars, clicks, clientVars, step, timeVars, threadVars, now,
                   out, reqs, updVars, succ, completeCalled, life, moreVars>>

\* the viewport of a connected client changes its shape: camera.aspect,
\* which get_camera_state reads at every render
Resize(c, a) ==
    /\ c \in clients
    /\ a # aspect[c]
    /\ Event
    /\ aspect' = [aspect EXCEPT ![c] = a]
    /\ UNCHANGED <<viewerVars, clicks, clientVars, step, timeVars, config, threadVars,
                   now, out, reqs, updVars, succ, completeCalled, life, stats, hStep,
                   late, pub>>

\* -------------------------------------------------------- camera events
\* a connected client reports a new camera pose
CameraUpdate(c) ==
    /\ c \in clients
    /\ pc[Cam(c)] = "idle"
    /\ Event
    /\ pc' = [pc EXCEPT ![Cam(c)] = "pending"]
    /\ out' = [out EXCEPT ![Cam(c)] = "none"]
    /\ reqs' = [reqs EXCEPT ![Cam(c)] = <<>>]
    /\ succ' = NoSucc
    /\ UNCHANGED <<viewerVars, clicks, clientVars, step, timeVars, config, locked, tgt,
                   act, todo, now, updVars, completeCalled, life, moreVars>>

\* a handler that finds no renderer once training is completed
MoveSubmitsUnlessCompleted(c) == c \in renderers /\ status # "completed"

\* self._renderers[client_id] finds the client's renderer, whatever the status
MoveSubmits(c) == c \in renderers

\* the camera on_update handler registered by _connect_client
OnCameraUpdate(c) ==
    /\ pc[Cam(c)] = "pending"
    /\ last_move_time' = now
    /\ IF MoveSubmits(c)
       THEN /\ pc' = [pc EXCEPT ![Cam(c)] = "submit"]
            /\ tgt' = [tgt EXCEPT ![Cam(c)] = c]
            /\ act' = [act EXCEPT ![Cam(c)] = "move"]
            /\ out' = out
       ELSE \* self._renderers[client_id] raises KeyError
            /\ pc' = [pc EXCEPT ![Cam(c)] = "idle"]
            /\ out' = [out EXCEPT ![Cam(c)] = "KeyError"]
            /\ UNCHANGED <<tgt, act>>
    /\ succ' = NoSucc
    /\ UNCHANGED <<viewerVars, clicks, clientVars, step, last_render, last_moved, config,
                   locked, todo, now, budget, reqs, updVars, completeCalled, life, moreVars>>


\* ------------------------------------------------------ update_training
\* while time.time() - self._last_move_time < 0.1
MovedRecently == now - last_move_time < DebounceTicks

\* if self.state.status == "training"
UpdateGateOpen == status = "training"

\* update_training is called: the stats text is set, and the call returns
\* at once when no renderer is registered
Update(sc) ==
    /\ pc[Host] = "idle"
    /\ Event
    /\ hScene' = sc
    /\ hGate' = "none"
    /\ hSnap' = {}
    /\ reqs' = [reqs EXCEPT ![Host] = <<>>]
    /\ succ' = IF sc THEN NoSucc
               ELSE IF succ.n >= 2 THEN [NoSucc EXCEPT !.n = 1]
               ELSE [succ EXCEPT !.n = @ + 1]
    /\ IF renderers = {}
       THEN /\ out' = [out EXCEPT ![Host] = "skipped"]
            /\ pc' = pc
       ELSE /\ out' = [out EXCEPT ![Host] = "none"]
            /\ pc' = [pc EXCEPT ![Host] = "debounce"]
    /\ stats' = Metrics
    /\ hStep' = IF status = "training" /\ hStep < MaxEvents THEN hStep + 1 ELSE hStep
    /\ UNCHANGED <<viewerVars, clicks, clientVars, step, timeVars, config, locked, tgt,
                   act, todo, now, hTrig, rendered, lastUpdate, completeCalled, life,
                   aspect, late, pub>>

\* the hold-off loop is left, the status is read and the clients are listed
UpdateGate ==
    /\ pc[Host] = "debounce"
    /\ ~MovedRecently
    /\ hGate' = status
    /\ IF UpdateGateOpen
       THEN /\ hSnap' = clients
            /\ todo' = [todo EXCEPT ![Host] = InOrder(clients)]
            /\ act' = [act EXCEPT ![Host] = "update"]
            /\ pc' = [pc EXCEPT ![Host] = "loop"]
            /\ out' = out
       ELSE /\ pc' = [pc EXCEPT ![Host] = "idle"]
            /\ out' = [out EXCEPT ![Host] = "skipped"]
            /\ UNCHANGED <<hSnap, todo, act>>
    /\ UNCHANGED <<viewerVars, clicks, clientVars, step, timeVars, config, locked, tgt,
                   now, budget, reqs, hScene, hTrig, rendered, lastUpdate, succ,
                   completeCalled, life, moreVars>>

\* one turn of the loop over the listed clients:
\* self._renderers[client_id].submit(RenderTask("update", camera_state))
UpdateSubmit ==
    /\ pc[Host] = "loop"
    /\ todo[Host] # <<>>
    /\ LET c == Head(todo[Host]) IN
       IF c \in renderers
       THEN /\ pc' = [pc EXCEPT ![Host] = "submit"]
            /\ tgt' = [tgt EXCEPT ![Host] = c]
            /\ hTrig' = last_render[c]
            /\ UNCHANGED <<out, todo>>
       ELSE \* self._renderers[client_id] raises KeyError
            /\ pc' = [pc EXCEPT ![Host] = "idle"]
            /\ out' = [out EXCEPT ![Host] = "KeyError"]
            /\ todo' = [todo EXCEPT ![Host] = <<>>]
            /\ UNCHANGED <<tgt, hTrig>>
    /\ UNCHANGED <<viewerVars, clicks, clientVars, step, timeVars, config, locked, act,
                   now, budget, reqs, hScene, hGate, hSnap, rendered, lastUpdate, succ,
                   completeCalled, life, moreVars>>

\* the loop is over: the stats text is set again and update_training returns
UpdateDone ==
    /\ pc[Host] = "loop"
    /\ todo[Host] = <<>>
    /\ pc' = [pc EXCEPT ![Host] = "idle"]
    /\ out' = [out EXCEPT ![Host] = "ok"]
    /\ lastUpdate' = now
    /\ stats' = Metrics
    /\ UNCHANGED <<viewerVars, clicks, clientVars, step, timeVars, config, locked, tgt,
                   act, todo, now, budget, reqs, hScene, hGate, hSnap, hTrig, rendered,
                   succ, completeCalled, life, aspect, hStep, late, pub>>

\* ------------------------------------------------------------- rerender
\* the Max Img Res slider changes: Viewer.rerender lists the clients
Rerender ==
    /\ pc[Gui] = "idle"
    /\ Event
    /\ todo' = [todo EXCEPT ![Gui] = InOrder(clients)]
    /\ act' = [act EXCEPT ![Gui] = "rerender"]
    /\ pc' = [pc EXCEPT ![Gui] = "loop"]
    /\ out' = [out EXCEPT ![Gui] = "none"]
    /\ reqs' = [reqs EXCEPT ![Gui] = <<>>]
    /\ succ' = NoSucc
    /\ UNCHANGED <<viewerVars, clicks, clientVars, step, timeVars, config, locked, tgt,
                   now, updVars, completeCalled, life, moreVars>>

\* self._renderers[client_id].submit(RenderTask("rerender", camera_state))
RerenderSubmit ==
    /\ pc[Gui] = "loop"
    /\ todo[Gui] # <<>>
    /\ LET c == Head(todo[Gui]) IN
       IF c \in renderers
       THEN /\ pc' = [pc EXCEPT ![Gui] = "submit"]
            /\ tgt' = [tgt EXCEPT ![Gui] = c]
            /\ UNCHANGED <<out, todo>>
       ELSE \* self._renderers[client_id] raises KeyError
            /\ pc' = [pc EXCEPT ![Gui] = "idle"]
            /\ out' = [out EXCEPT ![Gui] = "KeyError"]
            /\ todo' = [todo EXCEPT ![Gui] = <<>>]
            /\ tgt' = tgt
    /\ UNCHANGED <<viewerVars, clicks, clientVars, step, timeVars, config, locked, act,
                   now, budget, reqs, updVars, succ, completeCalled, life, moreVars>>

RerenderDone ==
    /\ pc[Gui] = "loop"
    /\ todo[Gui] = <<>>
    /\ pc' = [pc EXCEPT ![Gui] = "idle"]
    /\ out' = [out EXCEPT ![Gui] = "ok"]
    /\ UNCHANGED <<viewerVars, clicks, clientVars, step, timeVars, config, locked, tgt,
                   act, todo, now, budget, reqs, updVars, succ, completeCalled, life, moreVars>>

\* ------------------------------------------------------- specification
Next ==
    \/ Tick
    \/ ClickPause
    \/ ClickResume
    \/ OnPauseTrain
    \/ OnResumeTrain
    \/ Complete
    \/ \E c \in Clients : Connect(c)
    \/ \E c \in Clients : Disconnect(c)
    \/ \E c \in Clients : CameraUpdate(c)
    \/ \E c \in Clients : OnCameraUpdate(c)
    \/ \E t \in Threads : RenderBegin(t)
    \/ \E t \in Threads : RenderCall(t)
    \/ \E t \in Threads : RenderEnd(t)
    \/ \E t \in Threads : RenderFail(t)
    \/ \E sc \in BOOLEAN : Update(sc)
    \/ UpdateGate
    \/ UpdateSubmit
    \/ UpdateDone
    \/ Rerender
    \/ RerenderSubmit
    \/ RerenderDone

Spec == Init /\ [][Next]_vars

\* ------------------------------------- renders under a changing config
\* the schedulers of the connected clients render, for movements and for
\* rerender requests, while the shared RenderConfig is assigned to and the
\* viewports change
RenderNext ==
    \/ \E c \in Clients : Connect(c)
    \/ \E c \in Clients : CameraUpdate(c)
    \/ \E c \in Clients : OnCameraUpdate(c)
    \/ \E t \in Threads : RenderBegin(t)
    \/ \E t \in Threads : RenderCall(t)
    \/ \E t \in Threads : RenderEnd(t)
    \/ \E f \in DOMAIN ConfigInputs : \E v \in ConfigInputs[f] : SetConfig(f, v)
    \/ \E c \in Clients : \E a \in Aspects : Resize(c, a)
    \/ Rerender
    \/ RerenderSubmit
    \/ RerenderDone

RenderSpec == Init /\ [][RenderNext]_vars

\* ------------------------------------------- training with moving cameras
\* the clock of a run without end: at MaxTime every recorded time moves
\* back by one period instead, 0 standing for any time long ago
Older(x) == IF x > 0 THEN x - 1 ELSE 0

ClockSlide ==
    /\ Unbounded
    /\ now = MaxTime
    /\ last_move_time' = Older(last_move_time)
    /\ last_render' = [c \in Clients |-> Older(last_render[c])]
    /\ last_moved' = [c \in Clients |-> Older(last_moved[c])]
    /\ lastUpdate' = Older(lastUpdate)
    /\ hTrig' = Older(hTrig)
    /\ reqs' = [t \in Threads |->
                  [i \in 1..Len(reqs[t]) |-> [reqs[t][i] EXCEPT !.at = Older(@)]]]
    /\ UNCHANGED <<viewerVars, clicks, clientVars, step, config, threadVars, now,
                   budget, out, hScene, hGate, hSnap, rendered, succ, completeCalled,
                   life, moreVars>>

\* a training-mode viewer with a client that connects and moves its camera
\* for as long as it likes while the host calls update_training
LiveInit == Constructed /\ mode = "training" /\ budget = MaxEvents + 1

\* (one client is enough to keep the host waiting)
MovingClients == {1}

LiveNext ==
    \/ Tick
    \/ ClockSlide
    \/ \E c \in MovingClients : Connect(c)
    \/ \E c \in MovingClients : CameraUpdate(c)
    \/ \E c \in MovingClients : OnCameraUpdate(c)
    \/ \E t \in Threads : RenderBegin(t)
    \/ \E t \in Threads : RenderCall(t)
    \/ \E t \in Threads : RenderEnd(t)
    \/ \E sc \in BOOLEAN : Update(sc)
    \/ UpdateGate
    \/ UpdateSubmit
    \/ UpdateDone

\* time passes, every thread that can take a step takes it, and the hold-off
\* loop, which polls every period, is left if it can be left again and again
LiveSpec ==
    /\ LiveInit
    /\ [][LiveNext]_vars
    /\ WF_vars(Tick \/ ClockSlide)
    /\ SF_vars(UpdateGate)
    /\ WF_vars(UpdateSubmit \/ UpdateDone)
    /\ WF_vars(\E c \in MovingClients : OnCameraUpdate(c))
    /\ WF_vars(\E t \in Threads : RenderBegin(t))
    /\ WF_vars(\E t \in Threads : RenderCall(t))
    /\ WF_vars(\E t \in Threads : RenderEnd(t))


\* ------------------------------------------------------------ properties
\* threads inside the render callback
InCallback == {t \in Threads : pc[t] = "incall"}
\* the host is dispatching or running a render of update_training
HostRenders == pc[Host] \in {"submit", "posed", "incall"}

C2_Claim ==
    /\ HostRenders => hGate = "training"
    /\ completeCalled => ~HostRenders

\* C3: once the status is completed it stays completed.
C3_Claim == [][status = "completed" => status' = "completed"]_vars

\* C4: a viewer constructed in rendering mode always has status rendering,
\* and a viewer constructed in training mode never has status rendering.
C4_Claim ==
    /\ mode = "rendering" => status = "rendering"
    /\ mode = "training" => status # "rendering"

\* C5: no operation raises for a client whose renderer has been removed.
C5_Claim == \A t \in Threads : out[t] # "KeyError"

\* C6: a pause followed by a resume, starting from status training, gives
\* back status training and the buttons as they were before the pause
\* (Pause visible, Resume hidden).
C6_PauseResumeRestores ==
    (life.ops = <<"pause", "resume">> /\ life.pre[1] = "training") =>
        /\ status = "training"
        /\ pauseBtn = life.pre[2]
        /\ resumeBtn = life.pre[3]
        /\ pauseBtn.visible /\ ~resumeBtn.visible

\* C6 witness: a pause from training followed by a resume has happened.
C6_Witness == life.ops = <<"pause", "resume">> /\ life.pre[1] = "training"

\* C7: a camera-movement event handled for a connected client makes exactly
\* one render request, for that client, at the configured preview scale, and
\* records the time of the movement in the scheduler; the lifecycle status
\* plays no part, and the handler fails only for a client that is gone.
C7_MoveRendersOnce ==
    \A c \in Clients :
        /\ out[Cam(c)] = "ok" =>
              /\ Len(reqs[Cam(c)]) = 1
              /\ reqs[Cam(c)][1].client = c
              /\ reqs[Cam(c)][1].scale = reqs[Cam(c)][1].fast
              /\ last_moved[c] = reqs[Cam(c)][1].at
        /\ out[Cam(c)] = "KeyError" => c \notin renderers
        /\ pc[Cam(c)] \in {"submit", "posed", "incall"} => Len(reqs[Cam(c)]) <= 1

\* C7 witness: a movement has been handled, with its render, while the
\* status of a training-mode viewer was not training.
C7_Witness ==
    \E c \in Clients :
        /\ out[Cam(c)] = "ok"
        /\ mode = "training" /\ status \in {"paused", "completed"}
        /\ rendered = {c}

\* C8: an update with scene_changed = true that read status training has
\* triggered, when it ends, a render at full scale for every client it
\* listed that is still connected.
C8_Claim ==
    (/\ pc[Host] = "idle" /\ hGate = "training" /\ hScene
     /\ out[Host] \in {"ok", "KeyError"}) =>
        \A c \in hSnap \cap clients :
            \E i \in 1..Len(reqs[Host]) :
                reqs[Host][i].client = c /\ reqs[Host][i].scale = FullScale

\* C9: two updates with scene_changed = false in immediate succession, with
\* nothing between them, trigger at most one render per client in total.
C9_Claim == \A c \in Clients : succ.cnt[c] <= 1

\* C10: an update with scene_changed = false triggers a render only for a
\* client whose last render does not come after the last update.
C10_Claim ==
    (/\ pc[Host] = "submit" /\ ~hScene /\ lastUpdate > 0
     /\ tgt[Host] \in rendered) =>
        hTrig <= lastUpdate


\* C11: every update that enters the movement hold-off loop leaves it.
C11_Claim == (pc[Host] = "debounce") ~> (pc[Host] # "debounce")


\* the step in which the render callback of thread t raises
CallbackRaises(t) == pc[t] = "incall" /\ out'[t] = "CallbackFailure"

C13_Claim == mode = "rendering" => out[Host] \notin {"skipped", "ok"}

\* C14: the shared RenderConfig always holds values in the documented
\* ranges: resolution cap positive, preview scale in (0, 1], quality 0..100.
C14_Claim ==
    /\ config.max_render_res > 0
    /\ config.fast_render_scale \in 1..100
    /\ config.jpeg_quality \in 0..100

\* the render requests whose image size has been computed
Sized == {r \in UNION {{reqs[t][i] : i \in 1..Len(reqs[t])} : t \in Threads} :
             r.scale * r.res > 0}

\* C15: for a positive target = scale * max_render_res (here in hundredths
\* of a pixel) the long edge of the image is the target and the short edge
\* is a whole number of pixels, at most one pixel below target / aspect
\* (aspect > 1) or target * aspect (otherwise); 2048 at scale 0.5 and 16:9
\* gives (1024, 576).
C15_ImageSize ==
    \A r \in Sized :
        LET T == r.scale * r.res
            an == r.asp[1]
            ad == r.asp[2]
            w == r.size.w
            h == r.size.h
        IN /\ IF an > ad
              THEN /\ w = T /\ h <= T /\ h % 100 = 0
                   /\ h * an <= T * ad /\ T * ad < (h + 100) * an
              ELSE /\ h = T /\ w <= T /\ w % 100 = 0
                   /\ w * ad <= T * an /\ T * an < (w + 100) * ad
           /\ (r.res = 2048 /\ r.scale = 50 /\ r.asp = <<16, 9>>)
                 => r.size = [w |-> 102400, h |-> 57600]

\* C15 witness: the preview of a 16:9 client under the default config has
\* been sized, and so has a render of a portrait client.
C15_Witness ==
    /\ \E r \in Sized : r.res = 2048 /\ r.scale = 50 /\ r.asp = <<16, 9>>
    /\ \E r \in Sized : r.asp[1] < r.asp[2]

\* C16: the output quality a render publishes with is the quality that was
\* configured when the render computed its image size and called the
\* callback.
C16_Claim == pub.q = pub.q0

\* C17: the terminal message that complete() shows carries the step of the
\* last update call made while training.
C17_Claim == (completeCalled /\ stats.kind = "completed") => stats.step = hStep

\* C18: a movement handled for a client that connected after complete() and
\* is still registered has made one render request at the preview scale.
C18_LateClientRenders ==
    \A c \in late \cap renderers :
        (pc[Cam(c)] = "idle" /\ out[Cam(c)] # "none") =>
            /\ out[Cam(c)] \in {"ok", "CallbackFailure"}
            /\ Len(reqs[Cam(c)]) = 1
            /\ reqs[Cam(c)][1].client = c
            /\ reqs[Cam(c)][1].scale = reqs[Cam(c)][1].fast

\* C18 witness: with the status completed, a client that connected after
\* complete() has moved its camera and got its preview.
C18_Witness ==
    \E c \in late : out[Cam(c)] = "ok" /\ status = "completed" /\ reqs[Cam(c)] # <<>>

\* the Viewer has read the pose of the client's camera into a RenderTask and
\* submitted it; the task's render has not begun
TaskPosed(t) == pc[t] = "submit"

\* C19: between the read of the pose that a render's task carries and the
\* return of that render's callback, no other render's callback runs.
C19_Claim ==
    \A t \in Threads :
        TaskPosed(t) => \A u \in Threads \ {t} : pc[u] # "incall"

\* C20: as long as only pause and resume clicks have changed the status,
\* exactly one of the two buttons is visible, and the Resume button is the
\* visible one exactly when the status is paused.
C20_OneButtonVisible ==
    ~completeCalled =>
        /\ pauseBtn.visible # resumeBtn.visible
        /\ resumeBtn.visible <=> status = "paused"

\* C20 witness: the viewer is paused again after a pause and a resume.
C20_Witness ==
    /\ ~completeCalled
    /\ status = "paused" /\ resumeBtn.visible
    /\ budget <= MaxEvents - 3

====
